---- MODULE Spec2Model ----
(***************************************************************************)
(* ProjectCard (src/src/components/common/ProjectCard.tsx): a card with    *)
(* two local flags, imageLoading and imageError, an image whose source is  *)
(* project.image or a category placeholder, two badges and two links.      *)
(*                                                                         *)
(* Text is modelled in two forms.  A title is a sequence of Unicode code   *)
(* points (88 is "X", 32 is the space, 233 is e-acute).  A URL is a        *)
(* sequence of pieces, each piece a string; the pieces encodeURIComponent  *)
(* produces are single characters.                                         *)
(***************************************************************************)
EXTENDS Integers, Sequences, FiniteSets, TLC

(***************************************************************************)
(* Bounds of the model.                                                    *)
(***************************************************************************)
NumCards == 2
MaxTitleLen == 1
MaxIndex == 1
MaxEvents == 2

Cards == 1..NumCards
\* The card the single-card specification drives.
FirstCard == CHOOSE c \in Cards : \A d \in Cards : c <= d

(***************************************************************************)
(* Optional string props (image?, github?, liveDemo?): undefined, or a     *)
(* string, which may be empty.  Truthy is the JavaScript test applied by   *)
(* project.image && ..., project.github && ..., project.liveDemo && ...    *)
(***************************************************************************)
Undefined == [def |-> FALSE, str |-> <<>>]
Some(s) == [def |-> TRUE, str |-> s]
Truthy(o) == o.def /\ o.str # <<>>

(***************************************************************************)
(* encodeURIComponent: the unreserved characters A-Z a-z 0-9 - _ . ! ~ *   *)
(* apostrophe ( ) stand for themselves; every other code point becomes    *)
(* the bytes of its UTF-8 form, each written %XX in upper-case hex.        *)
(***************************************************************************)
UpperCase == << "A", "B", "C", "D", "E", "F", "G", "H", "I", "J", "K", "L", "M",
               "N", "O", "P", "Q", "R", "S", "T", "U", "V", "W", "X", "Y", "Z" >>
LowerCase == << "a", "b", "c", "d", "e", "f", "g", "h", "i", "j", "k", "l", "m",
               "n", "o", "p", "q", "r", "s", "t", "u", "v", "w", "x", "y", "z" >>
Digits == << "0", "1", "2", "3", "4", "5", "6", "7", "8", "9" >>
\* The character of an unreserved code point.
Chr(cp) ==
    CASE cp \in 65..90 -> UpperCase[cp - 64]
      [] cp \in 97..122 -> LowerCase[cp - 96]
      [] cp \in 48..57 -> Digits[cp - 47]
      [] cp = 45 -> "-"
      [] cp = 95 -> "_"
      [] cp = 46 -> "."
      [] cp = 33 -> "!"
      [] cp = 126 -> "~"
      [] cp = 42 -> "*"
      [] cp = 39 -> "'"
      [] cp = 40 -> "("
      [] cp = 41 -> ")"
HexDigit(n) == << "0", "1", "2", "3", "4", "5", "6", "7",
                  "8", "9", "A", "B", "C", "D", "E", "F" >>[n + 1]
Unreserved(cp) ==
    \/ cp \in 65..90
    \/ cp \in 97..122
    \/ cp \in 48..57
    \/ cp \in {45, 95, 46, 33, 126, 42, 39, 40, 41}
Utf8(cp) ==
    IF cp < 128 THEN << cp >>
    ELSE IF cp < 2048 THEN << 192 + (cp \div 64), 128 + (cp % 64) >>
    ELSE << 224 + (cp \div 4096), 128 + ((cp \div 64) % 64), 128 + (cp % 64) >>
PercentByte(b) == << "%", HexDigit(b \div 16), HexDigit(b % 16) >>
RECURSIVE PercentBytes(_)
PercentBytes(bs) ==
    IF bs = <<>> THEN <<>> ELSE PercentByte(Head(bs)) \o PercentBytes(Tail(bs))
EncodeChar(cp) == IF Unreserved(cp) THEN << Chr(cp) >> ELSE PercentBytes(Utf8(cp))
RECURSIVE encodeURIComponent(_)
encodeURIComponent(s) ==
    IF s = <<>> THEN <<>> ELSE EncodeChar(Head(s)) \o encodeURIComponent(Tail(s))

(***************************************************************************)
(* The Project records the cards are given.                                *)
(***************************************************************************)
Alphabet == {88, 32, 233}
Titles == UNION {[1..n -> Alphabet] : n \in 0..MaxTitleLen}
Categories == {"blockchain", "frontend", "fullstack", "other", "mobile", "constructor"}
ImageUrl == << "/projects/a.png" >>
OtherImageUrl == << "/projects/b.png" >>
GithubUrl == << "https://github.com/u/r" >>
DemoUrl == << "https://demo.example" >>
Description == << "A project" >>
Technologies == << "A", "B" >>

AllProjects ==
    [title : Titles,
     description : {Description},
     category : Categories,
     technologies : {Technologies},
     image : {Undefined, Some(<<>>), Some(ImageUrl)},
     github : {Undefined, Some(<<>>), Some(GithubUrl)},
     liveDemo : {Undefined, Some(<<>>), Some(DemoUrl)},
     featured : BOOLEAN]

MkProject(t, c, img, gh, demo, f) ==
    [title |-> t, description |-> Description, category |-> c,
     technologies |-> Technologies, image |-> img, github |-> gh,
     liveDemo |-> demo, featured |-> f]

\* The records a parent listing passes on a prop change.
Portfolio ==
    { MkProject(<<88>>, "frontend", Undefined, Undefined, Undefined, FALSE),
      MkProject(<<88>>, "blockchain", Some(ImageUrl), Some(GithubUrl), Undefined, TRUE),
      MkProject(<<32>>, "fullstack", Some(OtherImageUrl), Undefined, Some(DemoUrl), FALSE),
      MkProject(<<233>>, "constructor", Some(<<>>), Some(<<>>), Some(<<>>), TRUE) }

(***************************************************************************)
(* getImageSource.                                                         *)
(***************************************************************************)
categoryColors ==
    [c \in {"blockchain", "frontend", "fullstack"} |->
        CASE c = "blockchain" -> "1e293b/0ea5e9"
          [] c = "frontend" -> "1e1b4b/a855f7"
          [] c = "fullstack" -> "422006/d97706"]
DefaultColor == "1e293b/64748b"

\* categoryColors is an object literal, so a property read that finds no own
\* property goes on to Object.prototype: constructor, toString, valueOf, ...
\* are found there, and each is a function or an object, which is truthy.
ObjectPrototypeKeys ==
    {"constructor", "toString", "toLocaleString", "valueOf", "hasOwnProperty",
     "isPrototypeOf", "propertyIsEnumerable", "__proto__"}
\* What the template literal writes for the inherited member.
InheritedText(key) ==
    CASE key = "constructor" -> "function Object() { [native code] }"
      [] key = "__proto__" -> "[object Object]"
      [] OTHER -> "function " \o key \o "() { [native code] }"
\* categoryColors[project.category]
LookupColor(category) ==
    IF category \in DOMAIN categoryColors
    THEN [found |-> TRUE, text |-> categoryColors[category]]
    ELSE IF category \in ObjectPrototypeKeys
    THEN [found |-> TRUE, text |-> InheritedText(category)]
    ELSE [found |-> FALSE, text |-> ""]
\* categoryColors[project.category] || DefaultColor
ColorOf(category) ==
    LET v == LookupColor(category) IN
    IF v.found /\ v.text # "" THEN v.text ELSE DefaultColor

PlaceholderPrefix == "https://via.placeholder.com/800x600/"
placeholderSource(p) ==
    << PlaceholderPrefix, ColorOf(p.category), "?text=" >> \o encodeURIComponent(p.title)

\* A variant with the error test inverted.
getImageSourceInverted(p, imgError) ==
    IF Truthy(p.image) /\ imgError THEN p.image.str ELSE placeholderSource(p)

getImageSource(p, imgError) ==
    IF Truthy(p.image) /\ ~imgError THEN p.image.str ELSE placeholderSource(p)

(***************************************************************************)
(* The rendered card: what the JSX returns for given props and flags.      *)
(***************************************************************************)
NoLink == [shown |-> FALSE, href |-> <<>>, target |-> "", rel |-> {}]
\* A variant of the link without rel.
NewContextLinkNoRel(url) ==
    [shown |-> TRUE, href |-> url, target |-> "_blank", rel |-> {}]
NewContextLink(url) ==
    [shown |-> TRUE, href |-> url, target |-> "_blank", rel |-> {"noopener", "noreferrer"}]
\* transition={{ delay: index * 0.1 }}, the delay counted in tenths of a second.
DelayTenthsPerIndex == 1

\* className: opacity-0 while loading, opacity-100 otherwise.
OpacityAlwaysShown(imgLoading) == 100
Opacity(imgLoading) == IF imgLoading THEN 0 ELSE 100
\* {project.liveDemo && (... LIVE DEMO ...)}
LiveDemoBadgeOnGithub(p) == Truthy(p.github)
LiveDemoBadge(p) == Truthy(p.liveDemo)

Render(p, idx, imgLoading, imgError) ==
    [delayTenths |-> idx * DelayTenthsPerIndex,
     spinner |-> imgLoading,
     src |-> getImageSource(p, imgError),
     alt |-> << "Preview of " >> \o p.title,
     opacity |-> Opacity(imgLoading),
     liveDemoBadge |-> LiveDemoBadge(p),
     featuredBadge |-> p.featured,
     category |-> p.category,
     title |-> p.title,
     description |-> p.description,
     tags |-> p.technologies,
     codeLink |-> IF Truthy(p.github) THEN NewContextLink(p.github.str) ELSE NoLink,
     demoLink |-> IF Truthy(p.liveDemo) THEN NewContextLink(p.liveDemo.str) ELSE NoLink]

(***************************************************************************)
(* State.  Every card instance has its props (project, index), its two     *)
(* useState flags, the subtree its last render produced (dom), the state   *)
(* of its entrance and hover motion (anim), and the image events the       *)
(* image-loading facility has delivered to it so far, in order (events).   *)
(***************************************************************************)
VARIABLES project, index, imageLoading, imageError, dom, anim, events
vars == << project, index, imageLoading, imageError, dom, anim, events >>

\* The render that follows a change of props or flags of card c.
Rerender(c) ==
    dom' = [dom EXCEPT ![c] = Render(project'[c], index'[c], imageLoading'[c], imageError'[c])]

DefaultProject == MkProject(<<88>>, "frontend", Undefined, Undefined, Undefined, FALSE)

\* Mount: useState(false), useState(true), then the first render.
Mounted(projs) ==
    /\ project = projs
    /\ index = [c \in Cards |-> c - 1]
    /\ imageError = [c \in Cards |-> FALSE]
    /\ imageLoading = [c \in Cards |-> TRUE]
    /\ anim = [c \in Cards |-> "hidden"]
    /\ events = [c \in Cards |-> <<>>]
    /\ dom = [c \in Cards |-> Render(projs[c], c - 1, TRUE, FALSE)]

\* One card under every project record; the other cards stay as mounted.
Init ==
    \E p \in AllProjects :
        Mounted([c \in Cards |-> IF c = FirstCard THEN p ELSE DefaultProject])

\* Several cards of a listing, each with a record of the portfolio.
InitCards == \E projs \in [Cards -> Portfolio] : Mounted(projs)

\* A variant of handleImageLoad that leaves imageLoading as it is.
handleImageLoadKeepsLoading(c) ==
    /\ Len(events[c]) < MaxEvents
    /\ events' = [events EXCEPT ![c] = Append(@, "load")]
    /\ UNCHANGED << project, index, imageLoading, imageError, anim >>
    /\ Rerender(c)

\* onLoad={handleImageLoad}
handleImageLoad(c) ==
    /\ Len(events[c]) < MaxEvents
    /\ events' = [events EXCEPT ![c] = Append(@, "load")]
    /\ imageLoading' = [imageLoading EXCEPT ![c] = FALSE]
    /\ UNCHANGED << project, index, imageError, anim >>
    /\ Rerender(c)

\* A variant of handleImageError that only stops the loading state.
handleImageErrorNoFallback(c) ==
    /\ Len(events[c]) < MaxEvents
    /\ events' = [events EXCEPT ![c] = Append(@, "error")]
    /\ imageLoading' = [imageLoading EXCEPT ![c] = FALSE]
    /\ UNCHANGED << project, index, imageError, anim >>
    /\ Rerender(c)

\* A variant of handleImageError that only marks the error.
handleImageErrorKeepsLoading(c) ==
    /\ Len(events[c]) < MaxEvents
    /\ events' = [events EXCEPT ![c] = Append(@, "error")]
    /\ imageError' = [imageError EXCEPT ![c] = TRUE]
    /\ UNCHANGED << project, index, imageLoading, anim >>
    /\ Rerender(c)

\* A variant of handleImageError whose error flag is shared by all cards.
handleImageErrorShared(c) ==
    /\ Len(events[c]) < MaxEvents
    /\ events' = [events EXCEPT ![c] = Append(@, "error")]
    /\ imageError' = [d \in Cards |-> TRUE]
    /\ imageLoading' = [imageLoading EXCEPT ![c] = FALSE]
    /\ UNCHANGED << project, index, anim >>
    /\ dom' = [d \in Cards |->
                 Render(project'[d], index'[d], imageLoading'[d], imageError'[d])]

\* onError={handleImageError}: both updates are batched into one render.
handleImageError(c) ==
    /\ Len(events[c]) < MaxEvents
    /\ events' = [events EXCEPT ![c] = Append(@, "error")]
    /\ imageError' = [imageError EXCEPT ![c] = TRUE]
    /\ imageLoading' = [imageLoading EXCEPT ![c] = FALSE]
    /\ UNCHANGED << project, index, anim >>
    /\ Rerender(c)

\* A variant of the prop change that starts the image lifecycle again.
ChangeProjectResetsFlags(c) ==
    \E p \in Portfolio :
        /\ p # project[c]
        /\ project' = [project EXCEPT ![c] = p]
        /\ imageLoading' = [imageLoading EXCEPT ![c] = TRUE]
        /\ imageError' = [imageError EXCEPT ![c] = FALSE]
        /\ UNCHANGED << index, anim, events >>
        /\ Rerender(c)

\* The parent passes another project to the same card instance.
ChangeProject(c) ==
    \E p \in Portfolio :
        /\ p # project[c]
        /\ project' = [project EXCEPT ![c] = p]
        /\ UNCHANGED << index, imageLoading, imageError, anim, events >>
        /\ Rerender(c)

\* The parent passes another index to the same card instance.
ChangeIndex(c) ==
    \E i \in 0..MaxIndex :
        /\ i # index[c]
        /\ index' = [index EXCEPT ![c] = i]
        /\ UNCHANGED << project, imageLoading, imageError, anim, events >>
        /\ Rerender(c)

\* initial="hidden" whileInView="visible" viewport={{ once: true }}
Entrance(c) ==
    /\ anim[c] = "hidden"
    /\ anim' = [anim EXCEPT ![c] = "visible"]
    /\ UNCHANGED << project, index, imageLoading, imageError, dom, events >>

\* whileHover: the pointer enters or leaves the card.
Hover(c) ==
    /\ anim[c] \in {"visible", "hover"}
    /\ anim' = [anim EXCEPT ![c] = IF @ = "visible" THEN "hover" ELSE "visible"]
    /\ UNCHANGED << project, index, imageLoading, imageError, dom, events >>

\* whileTap on a link: the press begins or ends.
Tap(c) ==
    /\ anim[c] \in {"hover", "tap"}
    /\ dom[c].codeLink.shown \/ dom[c].demoLink.shown
    /\ anim' = [anim EXCEPT ![c] = IF @ = "hover" THEN "tap" ELSE "hover"]
    /\ UNCHANGED << project, index, imageLoading, imageError, dom, events >>

Next ==
    \E c \in {FirstCard} :
        \/ handleImageLoad(c)
        \/ handleImageError(c)
        \/ ChangeProject(c)
        \/ ChangeIndex(c)
        \/ Entrance(c)
        \/ Hover(c)
        \/ Tap(c)

Spec == Init /\ [][Next]_vars

NextCards ==
    \E c \in Cards :
        \/ handleImageLoad(c)
        \/ handleImageError(c)
        \/ ChangeProject(c)

SpecCards == InitCards /\ [][NextCards]_vars

(***************************************************************************)
(* Properties.                                                             *)
(***************************************************************************)
HasError(evs) == \E i \in 1..Len(evs) : evs[i] = "error"
HasLoad(evs) == \E i \in 1..Len(evs) : evs[i] = "load"

\* C1: whenever project.image is set (a non-empty string, the test the code
\* applies) and imageError is false, the rendered image source is
\* project.image.
C1_SourceIsProjectImage ==
    \A c \in Cards :
        (Truthy(project[c].image) /\ ~imageError[c]) => dom[c].src = project[c].image.str

\* C1 witness: a card that was given another project with an image, whose
\* image events were loads only, and that shows that image.
C1_Witness ==
    \E c \in Cards :
        /\ project[c].image = Some(OtherImageUrl)
        /\ events[c] = << "load", "load" >>
        /\ ~imageError[c]
        /\ dom[c].src = OtherImageUrl

\* The placeholder the specification describes: the pair of the category,
\* the fourth pair for every category that is not listed, the title encoded.
ExpectedPair(category) ==
    CASE category = "blockchain" -> "1e293b/0ea5e9"
      [] category = "frontend" -> "1e1b4b/a855f7"
      [] category = "fullstack" -> "422006/d97706"
      [] OTHER -> "1e293b/64748b"
ExpectedPlaceholder(p) ==
    << "https://via.placeholder.com/800x600/", ExpectedPair(p.category), "?text=" >>
        \o encodeURIComponent(p.title)

\* C2: a card whose project has no image, or that has received an image
\* error, renders the placeholder URL with the pair of its category, the
\* default pair for every other category, and the percent-encoded title.
C2_PlaceholderOfCategory ==
    \A c \in Cards :
        (~Truthy(project[c].image) \/ HasError(events[c]))
            => dom[c].src = ExpectedPlaceholder(project[c])

\* C3: once an image error has been delivered to a card, every later render
\* shows the placeholder, never project.image again, and no spinner,
\* whatever load events, error events and prop changes follow.
C3_ErrorFallsBackForGood ==
    \A c \in Cards :
        HasError(events[c]) =>
            /\ dom[c].src = placeholderSource(project[c])
            /\ Truthy(project[c].image) => dom[c].src # project[c].image.str
            /\ ~dom[c].spinner
            /\ ~imageLoading[c]

\* C3 witness: a card with an image that received an error and then a load
\* (of the placeholder) and shows the placeholder without spinner.
C3_Witness ==
    \E c \in Cards :
        /\ Truthy(project[c].image)
        /\ events[c] = << "error", "load" >>
        /\ dom[c].src = placeholderSource(project[c])
        /\ ~dom[c].spinner

\* C4: imageLoading is true exactly as long as no load or error event has
\* been delivered to the card; it changes only from true to false, and only
\* in the step that delivers the first such event.
C4_LoadingEndsOnce ==
    /\ [](\A c \in Cards : imageLoading[c] <=> events[c] = <<>>)
    /\ [][\A c \in Cards :
            imageLoading'[c] # imageLoading[c] =>
                /\ imageLoading[c]
                /\ events[c] = <<>>
                /\ Len(events'[c]) = 1]_vars

\* C4 witness: a card whose first event was a load and that received a
\* further event afterwards; imageLoading is false.
C4_Witness ==
    \E c \in Cards :
        /\ Len(events[c]) >= 2
        /\ events[c][1] = "load"
        /\ ~imageLoading[c]

\* C5 as stated: the spinner is shown exactly while imageLoading is true, and
\* the image is not visible before a load event has been delivered.
C5_HiddenUntilLoad ==
    \A c \in Cards :
        /\ dom[c].spinner = imageLoading[c]
        /\ dom[c].opacity # 0 => HasLoad(events[c])

\* C5 amended: the spinner is shown exactly while imageLoading is true, the
\* image has opacity 0 exactly while imageLoading is true, and it is not
\* visible before a load or an error event has been delivered to the card.
C5_HiddenUntilLoadOrError ==
    \A c \in Cards :
        /\ dom[c].spinner = imageLoading[c]
        /\ dom[c].opacity = 0 <=> imageLoading[c]
        /\ dom[c].opacity # 0 => events[c] # <<>>

\* C5 witness: a card whose only event is an error; the image (now the
\* placeholder, for which no load event has arrived) is visible.
C5_Witness ==
    \E c \in Cards :
        /\ events[c] = << "error" >>
        /\ dom[c].opacity = 100
        /\ ~dom[c].spinner

\* C6: a step changes a flag of a card only if it delivers an image event to
\* that card; entrance, hover and tap leave props, flags and the rendered
\* card alone; a change of index changes the entrance delay (index * 0.1)
\* and nothing else of the rendered card.
C6_OnlyImageEventsChangeFlags ==
    [][\A c \in Cards :
        /\ (imageLoading'[c] # imageLoading[c] \/ imageError'[c] # imageError[c])
              => events'[c] # events[c]
        /\ anim'[c] # anim[c]
              => /\ dom'[c] = dom[c]
                 /\ project'[c] = project[c]
                 /\ index'[c] = index[c]
        /\ index'[c] # index[c]
              => dom'[c] = [dom[c] EXCEPT !.delayTenths = index'[c] * DelayTenthsPerIndex]
        /\ dom'[c].delayTenths = index'[c] * DelayTenthsPerIndex]_vars

\* C6 witness: a card that has entered, is hovered and pressed, was given
\* another index and another project, and still has its initial flags.
C6_Witness ==
    \E c \in Cards :
        /\ anim[c] = "tap"
        /\ index[c] # c - 1
        /\ project[c].image = Some(OtherImageUrl)
        /\ imageLoading[c]
        /\ ~imageError[c]

\* The flags of one card after the image events delivered to it.
RECURSIVE FlagsAfter(_)
FlagsAfter(evs) ==
    IF evs = <<>> THEN [loading |-> TRUE, error |-> FALSE]
    ELSE LET before == FlagsAfter(SubSeq(evs, 1, Len(evs) - 1)) IN
         IF evs[Len(evs)] = "load"
         THEN [before EXCEPT !.loading = FALSE]
         ELSE [loading |-> FALSE, error |-> TRUE]

\* C7: with several cards, the flags and the rendered image source of each
\* card are a function of its own project and its own events, and a step
\* that delivers nothing to a card and leaves its props alone leaves its
\* flags and its rendered card alone.
C7_CardsAreIndependent ==
    /\ [](\A c \in Cards :
            /\ imageLoading[c] = FlagsAfter(events[c]).loading
            /\ imageError[c] = FlagsAfter(events[c]).error
            /\ dom[c].src = getImageSource(project[c], FlagsAfter(events[c]).error)
            /\ dom[c].spinner = FlagsAfter(events[c]).loading)
    /\ [][\A c \in Cards :
            (events'[c] = events[c] /\ project'[c] = project[c])
                => /\ imageLoading'[c] = imageLoading[c]
                   /\ imageError'[c] = imageError[c]
                   /\ dom'[c] = dom[c]]_vars

\* C7 witness: two cards with the same project and image, one after an
\* error, one after a load; the first shows the placeholder, the second the
\* image.
C7_Witness ==
    \E c, d \in Cards :
        /\ c # d
        /\ project[c] = project[d]
        /\ Truthy(project[c].image)
        /\ events[c] = << "error" >>
        /\ events[d] = << "load" >>
        /\ imageError[c] /\ ~imageError[d]
        /\ dom[c].src # dom[d].src

LinkOpensNewContext(link, url) ==
    /\ link.href = url
    /\ link.target = "_blank"
    /\ {"noopener", "noreferrer"} \subseteq link.rel

\* C8: the code link is rendered exactly when project.github is set (a
\* non-empty string), the live-demo link exactly when project.liveDemo is;
\* a rendered link has the URL as href, target _blank and rel noopener
\* noreferrer.
C8_LinksFollowProps ==
    \A c \in Cards :
        /\ dom[c].codeLink.shown <=> Truthy(project[c].github)
        /\ dom[c].demoLink.shown <=> Truthy(project[c].liveDemo)
        /\ dom[c].codeLink.shown => LinkOpensNewContext(dom[c].codeLink, project[c].github.str)
        /\ dom[c].demoLink.shown => LinkOpensNewContext(dom[c].demoLink, project[c].liveDemo.str)

\* C8 witness: a card after an image error with a github URL and an empty
\* liveDemo: the code link is rendered, the live-demo link is not.
C8_Witness ==
    \E c \in Cards :
        /\ imageError[c]
        /\ project[c].github = Some(GithubUrl)
        /\ project[c].liveDemo = Some(<<>>)
        /\ dom[c].codeLink.shown
        /\ ~dom[c].demoLink.shown

\* C9: the LIVE DEMO badge is present exactly when project.liveDemo is
\* truthy, the Featured badge exactly when project.featured is true, and the
\* LIVE DEMO badge and the live-demo link are present together.
C9_BadgesFollowProps ==
    \A c \in Cards :
        /\ dom[c].liveDemoBadge <=> Truthy(project[c].liveDemo)
        /\ dom[c].featuredBadge <=> project[c].featured
        /\ dom[c].liveDemoBadge <=> dom[c].demoLink.shown

\* C9 witness: a loaded card with a live demo that is not featured and has a
\* github URL: LIVE DEMO badge and link present, Featured badge absent.
C9_Witness ==
    \E c \in Cards :
        /\ ~imageLoading[c]
        /\ ~imageError[c]
        /\ Truthy(project[c].github)
        /\ dom[c].liveDemoBadge
        /\ dom[c].demoLink.shown
        /\ ~dom[c].featuredBadge

\* C10: no render sees imageLoading and imageError both true, and a card
\* that has left Loading never enters it again.
C10_ThreeStates ==
    /\ [](\A c \in Cards :
            /\ ~(imageLoading[c] /\ imageError[c])
            /\ ~(dom[c].spinner /\ imageError[c]))
    /\ [][\A c \in Cards : ~imageLoading[c] => ~imageLoading'[c]]_vars

\* C10 witness: a card that went from Loading to Loaded and then to Errored.
C10_Witness ==
    \E c \in Cards :
        /\ events[c] = << "load", "error" >>
        /\ imageError[c]
        /\ ~imageLoading[c]

====
